---- MODULE Spec2Model ----
(***************************************************************************)
(* Model of phantomfs.py: a read-only FUSE tree synthesised from a         *)
(* manifest (.ls file).  Paths are Python strings; they are modelled as    *)
(* sequences of one-character strings so that os.path.join, dirname,       *)
(* basename, str.startswith, str.find and sorted() are computed the way    *)
(* the interpreter computes them.                                          *)
(***************************************************************************)
EXTENDS Integers, Sequences, FiniteSets, TLC

VARIABLES
    _pfiles,             \* self._pfiles: filename -> PhantomFile
    _last_inode,         \* self._last_inode
    _inodes_mapping,     \* self._inodes_mapping: inode -> path
    _pathes_mapping,     \* self._pathes_mapping: path -> inode
    _tried_open_files,   \* self._tried_open_files (only ever tested with "in")
    _last_notification,  \* self._last_notification
    _stamp,              \* self._stamp
    now,                 \* the clock read by time()
    notifications,       \* Notify calls delivered on the session bus
    running,             \* llfuse.main() is still dispatching requests
    reply,               \* the last request and what its handler returned
    lock,                \* llfuse.lock: the worker that holds it
    workers              \* the worker threads of llfuse.main(): the request
                         \* each has taken and where its handler stands

vars == <<_pfiles, _last_inode, _inodes_mapping, _pathes_mapping,
          _tried_open_files, _last_notification, _stamp, now,
          notifications, running, reply, lock, workers>>

-----------------------------------------------------------------------------
(* Bounds of the model *)

\* time() is read on a clock that counts whole seconds and stops advancing
\* after MaxTime seconds
MaxTime == 4

\* the .ls files read at start have at most MaxLines lines
MaxLines == 2

\* llfuse.main() runs NumWorkers worker threads
NumWorkers == 2

-----------------------------------------------------------------------------
(* Program constants *)

ROOT_INODE == 1

_notif_max_wait_sec == 1

_dir_type == "d"

_sym_type == "l"

\* stat.S_IFDIR | S_IRUSR | S_IXUSR | S_IRGRP | S_IXGRP | S_IROTH | S_IXOTH
_directory_mode == 16384 + 256 + 64 + 32 + 8 + 4 + 1

\* stat.S_IFREG | S_IRUSR | S_IRGRP | S_IROTH
_file_mode == 32768 + 256 + 32 + 4

\* stat.S_IFLNK | S_IRUSR | S_IXUSR | S_IRGRP | S_IXGRP | S_IROTH | S_IXOTH
_symlink_mode == 40960 + 256 + 64 + 32 + 8 + 4 + 1

-----------------------------------------------------------------------------
(* Strings *)

\* code point of a character (ASCII), the order sorted() compares by
Ord(c) ==
    CASE c = "." -> 46
      [] c = "/" -> 47
      [] c = "a" -> 97
      [] c = "b" -> 98

\* s[i:] for a 0-based i
SliceFrom(s, i) == SubSeq(s, i + 1, Len(s))

\* s[:i] for a 0-based i
SliceTo(s, i) == SubSeq(s, 1, i)

\* str.startswith
startswith(s, prefix) ==
    /\ Len(prefix) <= Len(s)
    /\ SubSeq(s, 1, Len(prefix)) = prefix

\* str.find(c, start): 0-based index of the first c at or after start, or -1
find(s, c, start) ==
    LET hits == {i \in start .. (Len(s) - 1) : s[i + 1] = c}
    IN  IF hits = {} THEN -1
        ELSE CHOOSE i \in hits : \A j \in hits : i <= j

\* str.rfind(c): 0-based index of the last c, or -1
rfind(s, c) ==
    LET hits == {i \in 0 .. (Len(s) - 1) : s[i + 1] = c}
    IN  IF hits = {} THEN -1
        ELSE CHOOSE i \in hits : \A j \in hits : j <= i

\* str.rstrip(c)
RECURSIVE rstrip(_, _)
rstrip(s, c) ==
    IF s # <<>> /\ s[Len(s)] = c THEN rstrip(SubSeq(s, 1, Len(s) - 1), c)
    ELSE s

\* s1 < s2 as Python compares strings
RECURSIVE StrLess(_, _)
StrLess(s1, s2) ==
    IF s2 = <<>> THEN FALSE
    ELSE IF s1 = <<>> THEN TRUE
    ELSE IF Ord(Head(s1)) # Ord(Head(s2)) THEN Ord(Head(s1)) < Ord(Head(s2))
    ELSE StrLess(Tail(s1), Tail(s2))

\* sorted(set of strings)
RECURSIVE sorted(_)
sorted(S) ==
    IF S = {} THEN <<>>
    ELSE LET m == CHOOSE x \in S : \A y \in S \ {x} : StrLess(x, y)
         IN  <<m>> \o sorted(S \ {m})

\* os.path.join(a, b) of posixpath
join(a, b) ==
    IF b # <<>> /\ Head(b) = "/" THEN b
    ELSE IF a = <<>> \/ a[Len(a)] = "/" THEN a \o b
    ELSE a \o <<"/">> \o b

\* os.path.dirname(p) of posixpath
dirname(p) ==
    LET i == rfind(p, "/") + 1
        head == SliceTo(p, i)
    IN  IF head # <<>> /\ rstrip(head, "/") # <<>> THEN rstrip(head, "/")
        ELSE head

\* os.path.basename(p) of posixpath
basename(p) == SliceFrom(p, rfind(p, "/") + 1)

-----------------------------------------------------------------------------
(* The manifest and the catalog *)

PhantomFile(filename, filetype, filesize) ==
    [filename |-> filename, filetype |-> filetype, filesize |-> filesize]

is_dir(pf) == pf.filetype = _dir_type

is_symlink(pf) == pf.filetype = _sym_type

\* The .ls files the model is mounted with, one PhantomFile per line:
\*   1: the root record is listed; "ab" shares a prefix with the empty
\*      directory "a"
\*   2: no record for the root path "", three levels
\*   3: "a/b" is listed but its prefix "a" is not
Manifests ==
    { << PhantomFile(<<>>, "d", 0),
         PhantomFile(<<"a">>, "d", 0),
         PhantomFile(<<"a", "b">>, "l", 5) >>,
      << PhantomFile(<<"a">>, "d", 0),
         PhantomFile(<<"a", "/", "b">>, "d", 0),
         PhantomFile(<<"a", "/", "b", "/", "a">>, "f", 3) >>,
      << PhantomFile(<<>>, "d", 0),
         PhantomFile(<<"a", "/", "b">>, "f", 120),
         PhantomFile(<<"b">>, "d", 0) >> }

\* dict([(pf.filename, pf) for pf in [...]]): a later line replaces an earlier
LoadCatalog(manifest) ==
    [f \in {manifest[i].filename : i \in DOMAIN manifest} |->
        manifest[CHOOSE i \in DOMAIN manifest :
                    /\ manifest[i].filename = f
                    /\ \A j \in DOMAIN manifest :
                          manifest[j].filename = f => j <= i]]

\* the names the kernel passes to lookup: one path component, never empty
Names == {<<"a">>, <<"b">>, <<"a", "b">>, <<".">>, <<".", ".">>}

-----------------------------------------------------------------------------
(* The resolver: r is the triple (_last_inode, _inodes_mapping,            *)
(* _pathes_mapping) an operation starts from.                              *)

Resolver == [last_inode |-> _last_inode,
             inodes_mapping |-> _inodes_mapping,
             pathes_mapping |-> _pathes_mapping]

\* d[k] = v on a dict
Put(d, k, v) == [x \in DOMAIN d \cup {k} |-> IF x = k THEN v ELSE d[x]]

\* the default argument path=None (no path is this sequence)
None == <<"None">>

FUSEError(e) == [status |-> "FUSEError", errno |-> e]

Ok(v) == [status |-> "ok", value |-> v]

Raised(e) == [status |-> "exception", exc |-> e]

\* _create_inode with "inode = self._last_inode + 2"
_create_inode_skip(r, path) ==
    LET inode == IF path = None THEN ROOT_INODE ELSE r.last_inode + 2
        p     == IF path = None THEN <<>> ELSE path
    IN  [r |-> [last_inode |-> inode,
                inodes_mapping |-> Put(r.inodes_mapping, inode, p),
                pathes_mapping |-> Put(r.pathes_mapping, p, inode)],
         inode |-> inode]

\* _create_inode without "self._last_inode = inode"
_create_inode_stale(r, path) ==
    LET inode == IF path = None THEN ROOT_INODE ELSE r.last_inode + 1
        p     == IF path = None THEN <<>> ELSE path
    IN  [r |-> [last_inode |-> r.last_inode,
                inodes_mapping |-> Put(r.inodes_mapping, inode, p),
                pathes_mapping |-> Put(r.pathes_mapping, p, inode)],
         inode |-> inode]

_create_inode(r, path) ==
    LET inode == IF path = None THEN ROOT_INODE ELSE r.last_inode + 1
        p     == IF path = None THEN <<>> ELSE path
    IN  [r |-> [last_inode |-> inode,
                inodes_mapping |-> Put(r.inodes_mapping, inode, p),
                pathes_mapping |-> Put(r.pathes_mapping, p, inode)],
         inode |-> inode]

\* None when the path is not a key of _pfiles
_get_phantom_file_from_path(path) ==
    IF path \in DOMAIN _pfiles THEN {_pfiles[path]} ELSE {}

\* None when the inode is unknown or its path is not a key of _pfiles
_get_phantom_file_from_inode(r, inode) ==
    IF inode \in DOMAIN r.inodes_mapping
    THEN _get_phantom_file_from_path(r.inodes_mapping[inode])
    ELSE {}

\* _get_inode_from_path that allocates before it looks the path up
_get_inode_from_path_fresh(r, path) ==
    IF path \in DOMAIN _pfiles
    THEN [r |-> _create_inode(r, path).r,
          inode |-> _create_inode(r, path).inode, KeyError |-> FALSE]
    ELSE IF path \in DOMAIN r.pathes_mapping
    THEN [r |-> r, inode |-> r.pathes_mapping[path], KeyError |-> FALSE]
    ELSE [r |-> r, inode |-> 0, KeyError |-> TRUE]

\* _get_inode_from_path without "if path in self._pfiles.keys()"
_get_inode_from_path_any(r, path) ==
    IF path \in DOMAIN r.pathes_mapping
    THEN [r |-> r, inode |-> r.pathes_mapping[path], KeyError |-> FALSE]
    ELSE [r |-> _create_inode(r, path).r,
          inode |-> _create_inode(r, path).inode, KeyError |-> FALSE]

\* KeyError is TRUE when the call raises KeyError
_get_inode_from_path(r, path) ==
    IF path \in DOMAIN r.pathes_mapping
    THEN [r |-> r, inode |-> r.pathes_mapping[path], KeyError |-> FALSE]
    ELSE IF path \in DOMAIN _pfiles
    THEN [r |-> _create_inode(r, path).r,
          inode |-> _create_inode(r, path).inode, KeyError |-> FALSE]
    ELSE [r |-> r, inode |-> 0, KeyError |-> TRUE]

\* getattr that reads the clock for st_mtime_ns
getattr_wallclock(r, inode) ==
    LET pfile == _get_phantom_file_from_inode(r, inode)
    IN  IF pfile = {} THEN FUSEError("ENOENT")
        ELSE LET pf == CHOOSE x \in pfile : TRUE
             IN  Ok([st_mode |-> IF is_dir(pf) THEN _directory_mode
                                 ELSE IF is_symlink(pf) THEN _symlink_mode
                                 ELSE _file_mode,
                     st_size |-> pf.filesize,
                     st_atime_ns |-> _stamp,
                     st_ctime_ns |-> _stamp,
                     st_mtime_ns |-> now,
                     st_gid |-> "getgid",
                     st_uid |-> "getuid",
                     st_ino |-> inode])

getattr(r, inode) ==
    LET pfile == _get_phantom_file_from_inode(r, inode)
    IN  IF pfile = {} THEN FUSEError("ENOENT")
        ELSE LET pf == CHOOSE x \in pfile : TRUE
             IN  Ok([st_mode |-> IF is_dir(pf) THEN _directory_mode
                                 ELSE IF is_symlink(pf) THEN _symlink_mode
                                 ELSE _file_mode,
                     st_size |-> pf.filesize,
                     st_atime_ns |-> _stamp,
                     st_ctime_ns |-> _stamp,
                     st_mtime_ns |-> _stamp,
                     st_gid |-> "getgid",
                     st_uid |-> "getuid",
                     st_ino |-> inode])

\* lookup: the "if name == '.'" is followed by a second "if", not an "elif",
\* so its assignment is overwritten by the else branch of "if name == '..'"
lookup(r, parent_inode, name) ==
    IF name = <<".", ".">>
    THEN IF parent_inode = ROOT_INODE
         THEN [r |-> r, result |-> getattr(r, parent_inode)]
         ELSE IF parent_inode \notin DOMAIN r.inodes_mapping
         THEN [r |-> r, result |-> FUSEError("ENOENT")]
         ELSE LET parent_name == dirname(r.inodes_mapping[parent_inode])
              IN  IF parent_name \notin DOMAIN r.pathes_mapping
                  THEN [r |-> r, result |-> FUSEError("ENOENT")]
                  ELSE [r |-> r,
                        result |-> getattr(r, r.pathes_mapping[parent_name])]
    ELSE IF parent_inode \notin DOMAIN r.inodes_mapping
         THEN [r |-> r, result |-> FUSEError("ENOENT")]
         ELSE LET parent_name == r.inodes_mapping[parent_inode]
                  g == _get_inode_from_path(r, join(parent_name, name))
              IN  IF g.KeyError
                  THEN [r |-> r, result |-> FUSEError("ENOENT")]
                  ELSE [r |-> g.r, result |-> getattr(g.r, g.inode)]

\* contents with the directory name, not name + "/", as the prefix
contents_noslash(name) ==
    LET prefix == name
        find_offset == IF name = <<>> THEN Len(prefix) + 1 ELSE Len(prefix)
    IN  {f \in DOMAIN _pfiles :
            /\ f # prefix
            /\ startswith(f, prefix)
            /\ find(f, "/", find_offset) = -1}

\* the list comprehension of readdir: direct children only
contents(name) ==
    LET prefix == IF name = <<>> THEN name ELSE join(name, <<>>)
        find_offset == IF name = <<>> THEN Len(prefix) + 1 ELSE Len(prefix)
    IN  {f \in DOMAIN _pfiles :
            /\ f # prefix
            /\ startswith(f, prefix)
            /\ find(f, "/", find_offset) = -1}

\* readdir_loop with "if f_inode >= from_inode"
RECURSIVE readdir_loop_ge(_, _, _, _, _)
readdir_loop_ge(r, fs, from_inode, take, out) ==
    IF fs = <<>> \/ Len(out) = take THEN [r |-> r, out |-> out]
    ELSE LET f == Head(fs)
             g == _get_inode_from_path(r, f)
         IN  IF g.inode >= from_inode
             THEN readdir_loop_ge(g.r, Tail(fs), from_inode, take,
                                  Append(out, [name |-> basename(f),
                                               attr |-> getattr(g.r, g.inode),
                                               inode |-> g.inode]))
             ELSE readdir_loop_ge(g.r, Tail(fs), from_inode, take, out)

\* readdir_loop that resumes after the path of from_inode, not after its
\* number
RECURSIVE readdir_loop_bypath(_, _, _, _, _)
readdir_loop_bypath(r, fs, from_inode, take, out) ==
    IF fs = <<>> \/ Len(out) = take THEN [r |-> r, out |-> out]
    ELSE LET f == Head(fs)
             g == _get_inode_from_path(r, f)
         IN  IF \/ from_inode \notin DOMAIN r.inodes_mapping
                \/ StrLess(r.inodes_mapping[from_inode], f)
             THEN readdir_loop_bypath(g.r, Tail(fs), from_inode, take,
                                      Append(out,
                                             [name |-> basename(f),
                                              attr |-> getattr(g.r, g.inode),
                                              inode |-> g.inode]))
             ELSE readdir_loop_bypath(g.r, Tail(fs), from_inode, take, out)

\* the for loop of the readdir generator, resumed until the transport has
\* pulled `take` entries or the loop ends
RECURSIVE readdir_loop(_, _, _, _, _)
readdir_loop(r, fs, from_inode, take, out) ==
    IF fs = <<>> \/ Len(out) = take THEN [r |-> r, out |-> out]
    ELSE LET f == Head(fs)
             g == _get_inode_from_path(r, f)
         IN  IF g.inode > from_inode
             THEN readdir_loop(g.r, Tail(fs), from_inode, take,
                               Append(out, [name |-> basename(f),
                                            attr |-> getattr(g.r, g.inode),
                                            inode |-> g.inode]))
             ELSE readdir_loop(g.r, Tail(fs), from_inode, take, out)

readdir(r, inode, from_inode, take) ==
    IF inode \notin DOMAIN r.inodes_mapping
    THEN [r |-> r, result |-> Raised("KeyError")]
    ELSE LET run == readdir_loop(r, sorted(contents(r.inodes_mapping[inode])),
                                 from_inode, take, <<>>)
         IN  [r |-> run.r, result |-> Ok(run.out)]

\* read with an offset test of "offset >= 0"
read_any_offset(inode, offset, size) ==
    IF offset >= 0 THEN Ok("This file is not accessible\n") ELSE Ok("")

read(inode, offset, size) ==
    IF offset = 0 THEN Ok("This file is not accessible\n") ELSE Ok("")

write(inode, offset, buffer) == FUSEError("EPERM")

-----------------------------------------------------------------------------
(* The alert *)

\* the Notify call of _notify: the title names the file; at is the clock
\* reading when the call is made
Notify(name, t) == [title |-> name, at |-> t]

\* _notify with ">=" for ">"
_notify_due_ge(name, t) ==
    /\ name \in _tried_open_files
    /\ t - _last_notification >= _notif_max_wait_sec

\* _notify without the test of the time since the last notification
_notify_due_nothrottle(name, t) ==
    name \in _tried_open_files

\* _notify without "name in self._tried_open_files"
_notify_due_untried(name, t) ==
    t - _last_notification > _notif_max_wait_sec

\* the condition of _notify, evaluated with the clock reading t
_notify_due(name, t) ==
    /\ name \in _tried_open_files
    /\ t - _last_notification > _notif_max_wait_sec

-----------------------------------------------------------------------------
(* Reading the .ls file: line 66 of Operations.__init__ and                *)
(* PhantomFile.__init__                                                    *)

\* the characters str.strip() removes
Whitespace == {" ", "\t", "\n"}

\* str.strip()
RECURSIVE strip(_)
strip(s) ==
    IF s = <<>> THEN s
    ELSE IF Head(s) \in Whitespace THEN strip(Tail(s))
    ELSE IF s[Len(s)] \in Whitespace THEN strip(SliceTo(s, Len(s) - 1))
    ELSE s

\* str.split(sep)
RECURSIVE split(_, _)
split(s, sep) ==
    LET i == find(s, sep, 0)
    IN  IF i = -1 THEN <<s>>
        ELSE <<SliceTo(s, i)>> \o split(SliceFrom(s, i + 1), sep)

Digits == <<"0", "1", "2", "3", "4", "5", "6", "7", "8", "9">>

\* the number a string of decimal digits denotes
RECURSIVE DecimalValue(_)
DecimalValue(digits) ==
    IF digits = <<>> THEN 0
    ELSE DecimalValue(SliceTo(digits, Len(digits) - 1)) * 10
            + (CHOOSE d \in 0 .. 9 : Digits[d + 1] = digits[Len(digits)])

\* int(text) of a str: surrounding whitespace, an optional sign, decimal
\* digits
int(text) ==
    LET t      == strip(text)
        signed == t # <<>> /\ t[1] \in {"+", "-"}
        digits == IF signed THEN Tail(t) ELSE t
    IN  IF digits = <<>>
           \/ \E i \in DOMAIN digits :
                 \A d \in DOMAIN Digits : digits[i] # Digits[d]
        THEN Raised("ValueError")
        ELSE Ok(IF signed /\ t[1] = "-" THEN 0 - DecimalValue(digits)
                ELSE DecimalValue(digits))

\* the filetype field as the catalog keeps it: a one-character str is that
\* character
FileType(field) == IF Len(field) = 1 THEN field[1] ELSE field

\* [PhantomFile(*line.strip().split(':')) for line in lines]: a call with
\* other than three arguments raises TypeError, int(filesize) of a field
\* that is no integer raises ValueError
RECURSIVE PhantomFiles(_, _)
PhantomFiles(lines, out) ==
    IF lines = <<>> THEN Ok(out)
    ELSE LET fields == split(strip(Head(lines)), ":")
         IN  IF Len(fields) # 3 THEN Raised("TypeError")
             ELSE LET filesize == int(fields[3])
                  IN  IF filesize.status # "ok" THEN filesize
                      ELSE PhantomFiles(Tail(lines),
                                        Append(out,
                                               PhantomFile(fields[1],
                                                           FileType(fields[2]),
                                                           filesize.value)))

\* the lines the .ls files are made of
LsLines ==
    { <<"a", ":", "d", ":", "0", "\n">>,
      <<":", "d", ":", "0", "\n">>,
      <<"b", ":", "f", ":", "1", "2", " ", "\n">>,
      <<"b", ":", "l", ":", "-", "5", "\n">>,
      <<"b", ":", "f", "\n">>,
      <<"b", ":", "f", ":", "3", ":", "0", "\n">>,
      <<"b", ":", "f", ":", "x", "\n">>,
      <<"\n">> }

\* the .ls files: up to MaxLines of these lines
LsFiles ==
    UNION {[1 .. n -> LsLines] : n \in 0 .. MaxLines}

-----------------------------------------------------------------------------
(* The worker threads.  llfuse.main() starts several; a worker takes a     *)
(* request, acquires llfuse.lock, runs the handler and releases the lock.  *)

Workers == 1 .. NumWorkers

\* the value of lock when no worker holds it
NoWorker == 0

IdleWorker == [pc |-> "idle", req |-> None, todo |-> <<>>, path |-> None,
               inode |-> 0]

-----------------------------------------------------------------------------
(* State after Operations.__init__ *)

EmptyDict == [x \in {} |-> 0]

Init ==
    \E manifest \in Manifests :
       LET root == _create_inode([last_inode |-> 0,
                                  inodes_mapping |-> EmptyDict,
                                  pathes_mapping |-> EmptyDict], None)
       IN  /\ _pfiles = LoadCatalog(manifest)
           /\ _last_inode = root.r.last_inode
           /\ _inodes_mapping = root.r.inodes_mapping
           /\ _pathes_mapping = root.r.pathes_mapping
           /\ _tried_open_files = {}
           /\ now = 0
           /\ _last_notification = 0
           /\ _stamp = 0
           /\ notifications = <<>>
           /\ running = TRUE
           /\ reply = [op |-> "init"]
           /\ lock = NoWorker
           /\ workers = [w \in Workers |-> IdleWorker]

-----------------------------------------------------------------------------
(* Requests.  The transport hands one request at a time to a handler; the  *)
(* inode of a request is an allocated one or one never allocated.          *)

RequestInodes == DOMAIN _inodes_mapping \cup {_last_inode + 1}

\* the offsets the transport resumes a listing with: 0, or the inode that
\* came with an entry of that directory
Cursors(inode) ==
    {0} \cup {i \in DOMAIN _inodes_mapping :
                /\ inode \in DOMAIN _inodes_mapping
                /\ _inodes_mapping[i] \in contents(_inodes_mapping[inode])}

\* how many entries the transport pulls from the generator before its
\* buffer is full
Takes(inode) ==
    IF inode \in DOMAIN _inodes_mapping
    THEN 1 .. Cardinality(contents(_inodes_mapping[inode]) \cup {<<>>})
    ELSE {1}

SetResolver(r) ==
    /\ _last_inode' = r.last_inode
    /\ _inodes_mapping' = r.inodes_mapping
    /\ _pathes_mapping' = r.pathes_mapping

\* time passes between two requests
Tick ==
    /\ running
    /\ now < MaxTime
    /\ now' = now + 1
    /\ UNCHANGED <<lock, workers>>
    /\ UNCHANGED <<_pfiles, _last_inode, _inodes_mapping, _pathes_mapping,
                   _tried_open_files, _last_notification, _stamp,
                   notifications, running, reply>>

Getattr(inode) ==
    /\ running
    /\ reply' = [op |-> "getattr", inode |-> inode,
                 result |-> getattr(Resolver, inode)]
    /\ UNCHANGED <<lock, workers>>
    /\ UNCHANGED <<_pfiles, _last_inode, _inodes_mapping, _pathes_mapping,
                   _tried_open_files, _last_notification, _stamp, now,
                   notifications, running>>

Lookup(parent_inode, name) ==
    LET call == lookup(Resolver, parent_inode, name)
    IN  /\ running
        /\ SetResolver(call.r)
        /\ reply' = [op |-> "lookup", parent_inode |-> parent_inode,
                     name |-> name, result |-> call.result]
        /\ UNCHANGED <<lock, workers>>
        /\ UNCHANGED <<_pfiles, _tried_open_files, _last_notification, _stamp,
                       now, notifications, running>>

\* an exception other than FUSEError leaves llfuse.main(); main() closes
Readdir(inode, from_inode, take) ==
    LET call == readdir(Resolver, inode, from_inode, take)
    IN  /\ running
        /\ SetResolver(call.r)
        /\ reply' = [op |-> "readdir", inode |-> inode,
                     from_inode |-> from_inode, take |-> take,
                     result |-> call.result]
        /\ running' = (call.result.status # "exception")
        /\ UNCHANGED <<lock, workers>>
        /\ UNCHANGED <<_pfiles, _tried_open_files, _last_notification, _stamp,
                       now, notifications>>

\* open with _notify inlined; Notify is a blocking call on the session bus
\* that returns after some time or raises DBusException
Open(inode) ==
    /\ running
    /\ IF inode \in DOMAIN _inodes_mapping
       THEN LET name == _inodes_mapping[inode]
            IN  IF _notify_due(name, now)
                THEN \/ \E t \in now .. MaxTime :
                          /\ t <= now + 1
                          /\ notifications' =
                                Append(notifications, Notify(name, now))
                          /\ now' = t
                          /\ _last_notification' = t
                          /\ reply' = [op |-> "open", inode |-> inode,
                                       result |-> FUSEError("EPERM")]
                          /\ UNCHANGED <<_tried_open_files, running>>
                     \/ /\ reply' = [op |-> "open", inode |-> inode,
                                     result |-> Raised("DBusException")]
                        /\ running' = FALSE
                        /\ UNCHANGED <<_tried_open_files, _last_notification,
                                       now, notifications>>
                ELSE /\ _tried_open_files' = _tried_open_files \cup {name}
                     /\ reply' = [op |-> "open", inode |-> inode,
                                  result |-> Ok(inode)]
                     /\ UNCHANGED <<_last_notification, now, notifications,
                                    running>>
       ELSE /\ reply' = [op |-> "open", inode |-> inode,
                         result |-> FUSEError("ENOENT")]
            /\ UNCHANGED <<_tried_open_files, _last_notification, now,
                           notifications, running>>
    /\ UNCHANGED <<lock, workers>>
    /\ UNCHANGED <<_pfiles, _last_inode, _inodes_mapping, _pathes_mapping,
                   _stamp>>

\* the offsets and sizes of the read requests, the offsets and buffers of
\* the write requests
ReadOffsets == {0, 28}

ReadSizes == {4096}

WriteBuffers == {"x"}

Read(inode, offset, size) ==
    /\ running
    /\ reply' = [op |-> "read", inode |-> inode, offset |-> offset,
                 size |-> size, result |-> read(inode, offset, size)]
    /\ UNCHANGED <<lock, workers>>
    /\ UNCHANGED <<_pfiles, _last_inode, _inodes_mapping, _pathes_mapping,
                   _tried_open_files, _last_notification, _stamp, now,
                   notifications, running>>

Write(inode, offset, buffer) ==
    /\ running
    /\ reply' = [op |-> "write", inode |-> inode, offset |-> offset,
                 buffer |-> buffer, result |-> write(inode, offset, buffer)]
    /\ UNCHANGED <<lock, workers>>
    /\ UNCHANGED <<_pfiles, _last_inode, _inodes_mapping, _pathes_mapping,
                   _tried_open_files, _last_notification, _stamp, now,
                   notifications, running>>

Next ==
    \/ Tick
    \/ \E inode \in RequestInodes : Getattr(inode)
    \/ \E parent_inode \in RequestInodes, name \in Names :
          Lookup(parent_inode, name)
    \/ \E inode \in RequestInodes :
          \E from_inode \in Cursors(inode), take \in Takes(inode) :
             Readdir(inode, from_inode, take)
    \/ \E inode \in RequestInodes : Open(inode)
    \/ \E inode \in RequestInodes, offset \in ReadOffsets, size \in ReadSizes :
          Read(inode, offset, size)
    \/ \E inode \in RequestInodes, buffer \in WriteBuffers :
          Write(inode, 0, buffer)

Spec == Init /\ [][Next]_vars

-----------------------------------------------------------------------------
(* Start: main(args) with the .ls file named on the command line.  The     *)
(* file is in reply until main has constructed Operations and entered the  *)
(* main loop, or has left with the exception of the constructor.           *)

InitLoad ==
    \E lsfile \in LsFiles :
       /\ reply = [op |-> "start", lsfile |-> lsfile]
       /\ running = FALSE
       /\ _pfiles = EmptyDict
       /\ _last_inode = 0
       /\ _inodes_mapping = EmptyDict
       /\ _pathes_mapping = EmptyDict
       /\ _tried_open_files = {}
       /\ now = 0
       /\ _last_notification = 0
       /\ _stamp = 0
       /\ notifications = <<>>
       /\ lock = NoWorker
       /\ workers = [w \in Workers |-> IdleWorker]

main ==
    /\ reply.op = "start"
    /\ LET pfiles == PhantomFiles(reply.lsfile, <<>>)
           root   == _create_inode(Resolver, None)
       IN  IF pfiles.status = "ok"
           THEN /\ _pfiles' = LoadCatalog(pfiles.value)
                /\ SetResolver(root.r)
                /\ running' = TRUE
                /\ reply' = [op |-> "main", lsfile |-> reply.lsfile,
                             result |-> Ok("main loop")]
           ELSE /\ reply' = [op |-> "main", lsfile |-> reply.lsfile,
                             result |-> pfiles]
                /\ UNCHANGED <<_pfiles, _last_inode, _inodes_mapping,
                               _pathes_mapping, running>>
    /\ UNCHANGED <<_tried_open_files, now, _last_notification, _stamp,
                   notifications, lock, workers>>

NextLoad == main

SpecLoad == InitLoad /\ [][NextLoad]_vars

-----------------------------------------------------------------------------
(* Several workers.  A handler runs in steps, one per statement of         *)
(* _get_inode_from_path and _create_inode; its worker holds llfuse.lock    *)
(* from before its first step until after its last.  Only the statements   *)
(* that read or write the resolver are steps.                              *)

\* acquire() of llfuse.lock that does not wait for the holder
lock_acquire_nowait(w) == TRUE

\* acquire() of llfuse.lock by worker w returns when no worker holds it
lock_acquire(w) == lock = NoWorker

SetWorker(w, rec) == workers' = [workers EXCEPT ![w] = rec]

WorkersFrame ==
    UNCHANGED <<_pfiles, _tried_open_files, _last_notification, _stamp, now,
                notifications, running, reply>>

\* worker w takes a lookup request from the kernel
TakeLookup(w, parent_inode, name) ==
    /\ workers[w].pc = "idle"
    /\ SetWorker(w, [IdleWorker EXCEPT
                        !.pc = "acquire",
                        !.req = [op |-> "lookup",
                                 parent_inode |-> parent_inode,
                                 name |-> name]])
    /\ UNCHANGED <<_last_inode, _inodes_mapping, _pathes_mapping, lock>>
    /\ WorkersFrame

\* worker w takes a readdir request from the kernel
TakeReaddir(w, inode) ==
    /\ workers[w].pc = "idle"
    /\ SetWorker(w, [IdleWorker EXCEPT
                        !.pc = "acquire",
                        !.req = [op |-> "readdir", inode |-> inode]])
    /\ UNCHANGED <<_last_inode, _inodes_mapping, _pathes_mapping, lock>>
    /\ WorkersFrame

\* the paths the handler of req passes to _get_inode_from_path: the joined
\* path of lookup (lines 159-160), the sorted children of readdir (lines
\* 169-180); none when the inode of the request is unknown or the name is
\* ".."
Todo(req) ==
    IF req.op = "lookup"
    THEN IF \/ req.parent_inode \notin DOMAIN _inodes_mapping
            \/ req.name = <<".", ".">>
         THEN <<>>
         ELSE <<join(_inodes_mapping[req.parent_inode], req.name)>>
    ELSE IF req.inode \notin DOMAIN _inodes_mapping THEN <<>>
         ELSE sorted(contents(_inodes_mapping[req.inode]))

\* worker w acquires the lock and its handler starts
Acquire(w) ==
    /\ workers[w].pc = "acquire"
    /\ lock_acquire(w)
    /\ lock' = w
    /\ SetWorker(w, [workers[w] EXCEPT !.pc = "get",
                                       !.todo = Todo(workers[w].req)])
    /\ UNCHANGED <<_last_inode, _inodes_mapping, _pathes_mapping>>
    /\ WorkersFrame

\* lines 113-119 of _get_inode_from_path for the next path: the identifier
\* is found, or the path is a catalog key and _create_inode is entered, or
\* KeyError is raised and the handler ends
GetInode(w) ==
    /\ workers[w].pc = "get"
    /\ workers[w].todo # <<>>
    /\ LET path == Head(workers[w].todo)
       IN  IF path \in DOMAIN _pathes_mapping
           THEN SetWorker(w, [workers[w] EXCEPT
                                 !.todo = Tail(workers[w].todo),
                                 !.path = path,
                                 !.inode = _pathes_mapping[path]])
           ELSE IF path \in DOMAIN _pfiles
           THEN SetWorker(w, [workers[w] EXCEPT !.pc = "line94",
                                                !.path = path])
           ELSE SetWorker(w, [workers[w] EXCEPT !.todo = <<>>])
    /\ UNCHANGED <<_last_inode, _inodes_mapping, _pathes_mapping, lock>>
    /\ WorkersFrame

\* inode = self._last_inode + 1
Line94(w) ==
    /\ workers[w].pc = "line94"
    /\ SetWorker(w, [workers[w] EXCEPT !.pc = "line95",
                                       !.inode = _last_inode + 1])
    /\ UNCHANGED <<_last_inode, _inodes_mapping, _pathes_mapping, lock>>
    /\ WorkersFrame

\* self._inodes_mapping[inode] = path
Line95(w) ==
    /\ workers[w].pc = "line95"
    /\ _inodes_mapping' =
          Put(_inodes_mapping, workers[w].inode, workers[w].path)
    /\ SetWorker(w, [workers[w] EXCEPT !.pc = "line96"])
    /\ UNCHANGED <<_last_inode, _pathes_mapping, lock>>
    /\ WorkersFrame

\* self._pathes_mapping[path] = inode
Line96(w) ==
    /\ workers[w].pc = "line96"
    /\ _pathes_mapping' =
          Put(_pathes_mapping, workers[w].path, workers[w].inode)
    /\ SetWorker(w, [workers[w] EXCEPT !.pc = "line97"])
    /\ UNCHANGED <<_last_inode, _inodes_mapping, lock>>
    /\ WorkersFrame

\* self._last_inode = inode; return inode
Line97(w) ==
    /\ workers[w].pc = "line97"
    /\ _last_inode' = workers[w].inode
    /\ SetWorker(w, [workers[w] EXCEPT !.pc = "get",
                                       !.todo = Tail(workers[w].todo)])
    /\ UNCHANGED <<_inodes_mapping, _pathes_mapping, lock>>
    /\ WorkersFrame

\* the handler returns or raises FUSEError; its worker releases the lock
Release(w) ==
    /\ workers[w].pc = "get"
    /\ workers[w].todo = <<>>
    /\ lock' = NoWorker
    /\ SetWorker(w, IdleWorker)
    /\ UNCHANGED <<_last_inode, _inodes_mapping, _pathes_mapping>>
    /\ WorkersFrame

NextWorkers ==
    \E w \in Workers :
       \/ \E parent_inode \in RequestInodes, name \in Names :
             TakeLookup(w, parent_inode, name)
       \/ \E inode \in RequestInodes : TakeReaddir(w, inode)
       \/ Acquire(w)
       \/ GetInode(w)
       \/ Line94(w)
       \/ Line95(w)
       \/ Line96(w)
       \/ Line97(w)
       \/ Release(w)

SpecWorkers == Init /\ [][NextWorkers]_vars

-----------------------------------------------------------------------------
(* Properties *)

IsOk(res) == res.status = "ok"

IsErr(res, e) == res.status = "FUSEError" /\ res.errno = e

\* the components of a path
RECURSIVE Segments(_)
Segments(p) ==
    IF p = <<>> THEN <<>>
    ELSE LET i == find(p, "/", 0)
         IN  IF i = -1 THEN <<p>>
             ELSE <<SliceTo(p, i)>> \o Segments(SliceFrom(p, i + 1))

\* the catalog paths one component below dir
DirectChildren(dir) ==
    LET n == IF dir = <<>> THEN 0 ELSE Len(dir) + 1
    IN  {p \in DOMAIN _pfiles :
            /\ Len(p) > n
            /\ dir # <<>> => SubSeq(p, 1, n) = dir \o <<"/">>
            /\ \A i \in (n + 1) .. Len(p) : p[i] # "/"}

\* the largest element of a set of numbers
Highest(S) == CHOOSE x \in S : \A y \in S : y <= x

ResolverUnchanged ==
    UNCHANGED <<_last_inode, _inodes_mapping, _pathes_mapping>>

\* the step is the handling of the open request that reply' records
OpenStep == reply'.op = "open" /\ Open(reply'.inode)

\* the step is the handling of the lookup request that reply' records
LookupStep ==
    reply'.op = "lookup" /\ Lookup(reply'.parent_inode, reply'.name)

C2_Debounce ==
    [][(OpenStep /\ reply'.inode \in DOMAIN _inodes_mapping) =>
            LET name  == _inodes_mapping[reply'.inode]
                first == name \notin _tried_open_files
                sent  == notifications' # notifications
            IN  /\ first => ~sent
                /\ ~first =>
                     (sent <=> now - _last_notification > _notif_max_wait_sec)
                /\ sent => /\ Len(notifications') = Len(notifications) + 1
                           /\ notifications'[Len(notifications')].title = name
                           /\ _last_notification' = now'
                /\ ~sent => _last_notification' = _last_notification]_vars

\* C3: when open decides to send an alert and the send fails, the caller
\* still gets permission denied and the path stays attempted.
C3_SendFailureSwallowed ==
    [][(/\ OpenStep
        /\ reply'.inode \in DOMAIN _inodes_mapping
        /\ _inodes_mapping[reply'.inode] \in _tried_open_files
        /\ now - _last_notification > _notif_max_wait_sec
        /\ notifications' = notifications)
          => /\ IsErr(reply'.result, "EPERM")
             /\ _inodes_mapping[reply'.inode] \in _tried_open_files']_vars

\* C4: the two maps are inverse of each other and the root path "" maps to
\* ROOT_INODE, whatever the manifest holds.
C4_Bijection ==
    /\ \A path \in DOMAIN _pathes_mapping :
          /\ _pathes_mapping[path] \in DOMAIN _inodes_mapping
          /\ _inodes_mapping[_pathes_mapping[path]] = path
    /\ \A inode \in DOMAIN _inodes_mapping :
          /\ _inodes_mapping[inode] \in DOMAIN _pathes_mapping
          /\ _pathes_mapping[_inodes_mapping[inode]] = inode
    /\ <<>> \in DOMAIN _pathes_mapping
    /\ _pathes_mapping[<<>>] = ROOT_INODE

\* C4 witness: several identifiers allocated under a manifest that has no
\* record for the root path
C4_Witness ==
    /\ <<>> \notin DOMAIN _pfiles
    /\ Cardinality(DOMAIN _inodes_mapping) >= 3
    /\ _tried_open_files # {}

\* C5: an identifier assigned to a path stays assigned to it (no entry of
\* either map is removed or changed), so a resolve_child that returned an
\* identifier returns the same one when repeated, whatever ran in between.
C5_Stable ==
    [][/\ \A path \in DOMAIN _pathes_mapping :
             /\ path \in DOMAIN _pathes_mapping'
             /\ _pathes_mapping'[path] = _pathes_mapping[path]
       /\ \A inode \in DOMAIN _inodes_mapping :
             /\ inode \in DOMAIN _inodes_mapping'
             /\ _inodes_mapping'[inode] = _inodes_mapping[inode]
       /\ (LookupStep /\ IsOk(reply'.result))
             => lookup(Resolver', reply'.parent_inode, reply'.name).result
                   = reply'.result
       /\ Resolver' # Resolver =>
             \A parent_inode \in RequestInodes, name \in Names :
                (/\ IsOk(lookup(Resolver, parent_inode, name).result)
                 /\ lookup(Resolver, parent_inode, name).r = Resolver)
                   => lookup(Resolver', parent_inode, name).result
                         = lookup(Resolver, parent_inode, name).result]_vars

\* C5 witness: a lookup returned an identifier that was allocated before
\* other identifiers were
C5_Witness ==
    /\ reply.op = "lookup"
    /\ IsOk(reply.result)
    /\ reply.name \in {<<"a">>, <<"b">>, <<"a", "b">>}
    /\ reply.result.value.st_ino < _last_inode

\* C6: readdir yields, in ascending order of full path, exactly the direct
\* children of the directory whose identifier (allocated on the way if
\* needed) is greater than the cursor: every entry is such a child, and a
\* child is missing only if its identifier is not above the cursor or the
\* transport stopped pulling before it.
C6_ListChildren ==
    (reply.op = "readdir" /\ IsOk(reply.result)) =>
        LET dir == _inodes_mapping[reply.inode]
            out == reply.result.value
            path(k) == join(dir, out[k].name)
        IN  /\ \A k \in DOMAIN out :
                  /\ path(k) \in DirectChildren(dir)
                  /\ path(k) \in DOMAIN _pathes_mapping
                  /\ _pathes_mapping[path(k)] = out[k].inode
                  /\ out[k].inode > reply.from_inode
            /\ \A j, k \in DOMAIN out : j < k => StrLess(path(j), path(k))
            /\ \A child \in DirectChildren(dir) :
                  \/ \E k \in DOMAIN out : path(k) = child
                  \/ /\ child \in DOMAIN _pathes_mapping
                     /\ _pathes_mapping[child] <= reply.from_inode
                  \/ /\ Len(out) = reply.take
                     /\ StrLess(path(Len(out)), child)

\* C6 witness: a listing resumed after the identifier of an entry yields
\* the next child
C6_Witness ==
    /\ reply.op = "readdir"
    /\ IsOk(reply.result)
    /\ reply.from_inode > 0
    /\ reply.result.value # <<>>

\* C7: resolve_child for a name other than "." and "..": an identifier the
\* path already has is returned and nothing is allocated; else a catalog
\* path gets the highest identifier so far plus 1, recorded in both maps;
\* else the call fails with ENOENT and the maps and counter are unchanged.
C7_ResolveChild ==
    [][(/\ LookupStep
        /\ reply'.parent_inode \in DOMAIN _inodes_mapping
        /\ reply'.name \notin {<<".">>, <<".", ".">>}) =>
            LET path == join(_inodes_mapping[reply'.parent_inode],
                             reply'.name)
                new  == Highest(DOMAIN _inodes_mapping) + 1
            IN  IF path \in DOMAIN _pathes_mapping
                THEN /\ IsOk(reply'.result)
                     /\ reply'.result.value.st_ino = _pathes_mapping[path]
                     /\ ResolverUnchanged
                ELSE IF path \in DOMAIN _pfiles
                THEN /\ IsOk(reply'.result)
                     /\ reply'.result.value.st_ino = new
                     /\ _inodes_mapping' = Put(_inodes_mapping, new, path)
                     /\ _pathes_mapping' = Put(_pathes_mapping, path, new)
                     /\ _last_inode' = new
                ELSE /\ IsErr(reply'.result, "ENOENT")
                     /\ ResolverUnchanged]_vars

\* C7 witness: a lookup answered with the identifier just allocated, the
\* third of the mount
C7_Witness ==
    /\ reply.op = "lookup"
    /\ IsOk(reply.result)
    /\ reply.name = <<"a", "b">>
    /\ reply.result.value.st_ino = _last_inode
    /\ _last_inode = 3

\* C8: resolve_child(parent_id, ".") succeeds for every allocated parent_id,
\* returns parent_id and allocates nothing.
C8_Dot ==
    [][(/\ LookupStep
        /\ reply'.parent_inode \in DOMAIN _inodes_mapping
        /\ reply'.name = <<".">>) =>
            /\ IsOk(reply'.result)
            /\ reply'.result.value.st_ino = reply'.parent_inode
            /\ ResolverUnchanged]_vars

\* C9: resolve_child(parent_id, "..") returns the identifier of the dirname
\* of parent_id's path, and parent_id itself for the root, for every
\* catalog, with or without a record for the root path.
C9_DotDot ==
    [][(/\ LookupStep
        /\ reply'.parent_inode \in DOMAIN _inodes_mapping
        /\ reply'.name = <<".", ".">>) =>
            /\ IsOk(reply'.result)
            /\ reply'.result.value.st_ino =
                  IF reply'.parent_inode = ROOT_INODE THEN ROOT_INODE
                  ELSE _pathes_mapping[
                          dirname(_inodes_mapping[reply'.parent_inode])]
         ]_vars

\* resolve the components of a path one by one, starting at inode
RECURSIVE Walk(_, _, _)
Walk(r, inode, segments) ==
    IF segments = <<>> THEN [ok |-> TRUE, r |-> r, inode |-> inode]
    ELSE IF IsOk(lookup(r, inode, Head(segments)).result)
    THEN Walk(lookup(r, inode, Head(segments)).r,
              lookup(r, inode, Head(segments)).result.value.st_ino,
              Tail(segments))
    ELSE [ok |-> FALSE, r |-> r, inode |-> inode]

\* C10: every catalog path is reached from ROOT_INODE by resolving its
\* components one by one, also when a prefix of it (or the root) has no
\* record of its own in the manifest.
C10_Traversable ==
    \A path \in DOMAIN _pfiles \ {<<>>} :
        LET w == Walk(Resolver, ROOT_INODE, Segments(path))
        IN  /\ w.ok
            /\ w.r.inodes_mapping[w.inode] = path

\* the step is the handling of the request that reply' records
GetattrStep == reply'.op = "getattr" /\ Getattr(reply'.inode)

ReaddirStep ==
    /\ reply'.op = "readdir"
    /\ Readdir(reply'.inode, reply'.from_inode, reply'.take)

ReadStep ==
    reply'.op = "read" /\ Read(reply'.inode, reply'.offset, reply'.size)

WriteStep ==
    reply'.op = "write" /\ Write(reply'.inode, reply'.offset, reply'.buffer)

\* C11: for an allocated identifier whose path is a catalog key, getattr
\* reports the size of the record, the directory mode for type "d", the
\* symlink mode for "l" and the read-only regular mode for any other type,
\* the identifier as st_ino, and the three timestamps equal to the one value
\* taken at mount start (clock reading 0), whenever it is called.
C11_Attributes ==
    (/\ reply.op = "getattr"
     /\ reply.inode \in DOMAIN _inodes_mapping
     /\ _inodes_mapping[reply.inode] \in DOMAIN _pfiles) =>
        /\ IsOk(reply.result)
        /\ LET attr == reply.result.value
               pf   == _pfiles[_inodes_mapping[reply.inode]]
           IN  /\ attr.st_size = pf.filesize
               /\ attr.st_mode = CASE pf.filetype = "d" -> 16749
                                   [] pf.filetype = "l" -> 41325
                                   [] OTHER -> 33060
               /\ attr.st_ino = reply.inode
               /\ attr.st_atime_ns = 0
               /\ attr.st_mtime_ns = 0
               /\ attr.st_ctime_ns = 0

\* C11 witness: the attributes of a symlink, asked for some seconds after
\* mount start
C11_Witness ==
    /\ reply.op = "getattr"
    /\ IsOk(reply.result)
    /\ reply.result.value.st_mode = 41325
    /\ reply.result.value.st_size = 5
    /\ now >= 2

GateUnchanged ==
    UNCHANGED <<_tried_open_files, _last_notification, notifications>>

\* C12: write fails with EPERM for every identifier; read returns the fixed
\* message at offset 0 and nothing at any other offset, whatever the size of
\* the entry; neither changes the resolver, the attempted opens or the
\* throttle.
C12_ReadWrite ==
    [][/\ WriteStep => /\ IsErr(reply'.result, "EPERM")
                       /\ ResolverUnchanged
                       /\ GateUnchanged
       /\ ReadStep => /\ IsOk(reply'.result)
                      /\ reply'.offset = 0 =>
                            reply'.result.value
                               = "This file is not accessible\n"
                      /\ reply'.offset # 0 => reply'.result.value = ""
                      /\ ResolverUnchanged
                      /\ GateUnchanged]_vars

\* C12 witness: a read past offset 0 of an entry of size 3 returned nothing
C12_Witness ==
    /\ reply.op = "read"
    /\ reply.offset # 0
    /\ reply.result = Ok("")
    /\ reply.inode \in DOMAIN _inodes_mapping
    /\ _inodes_mapping[reply.inode] \in DOMAIN _pfiles
    /\ _pfiles[_inodes_mapping[reply.inode]].filesize = 3

\* C14: lookup, readdir, getattr and open with an identifier that was never
\* allocated fail with ENOENT and leave the resolver, the attempted opens
\* and the throttle unchanged.
C14_Unresolvable ==
    [][(\/ /\ reply'.op = "lookup"
           /\ reply'.parent_inode \notin DOMAIN _inodes_mapping
           /\ LookupStep
        \/ /\ reply'.op \in {"readdir", "getattr", "open"}
           /\ reply'.inode \notin DOMAIN _inodes_mapping
           /\ ReaddirStep \/ GetattrStep \/ OpenStep)
          => /\ IsErr(reply'.result, "ENOENT")
             /\ ResolverUnchanged
             /\ GateUnchanged]_vars

\* the paths of the entries of a readdir reply
EntryPaths(dir, out) == {join(dir, out[k].name) : k \in DOMAIN out}

\* C16: when a listing of a directory is resumed with the identifier of the
\* last entry received, a child that sorts after that entry but got a
\* smaller identifier (from an earlier lookup) is in neither page: it is
\* never returned.
C16_PaginationHazard ==
    [][(/\ reply'.op = "readdir"
        /\ IsOk(reply'.result)
        /\ reply.op = "readdir"
        /\ IsOk(reply.result)
        /\ reply.inode = reply'.inode
        /\ reply.result.value # <<>>
        /\ reply'.from_inode
              = reply.result.value[Len(reply.result.value)].inode
        /\ ReaddirStep) =>
            LET dir == _inodes_mapping[reply'.inode]
            IN  \A child \in DirectChildren(dir) :
                   (/\ child \in DOMAIN _pathes_mapping
                    /\ _pathes_mapping[child] < reply'.from_inode
                    /\ StrLess(_inodes_mapping[reply'.from_inode], child))
                     => /\ child \notin EntryPaths(dir, reply.result.value)
                        /\ child \notin EntryPaths(dir, reply'.result.value)
      ]_vars

\* C16 witness: a listing resumed after an entry ran to its end without a
\* child that sorts after that entry and has a smaller identifier
C16_Witness ==
    /\ reply.op = "readdir"
    /\ IsOk(reply.result)
    /\ reply.from_inode \in DOMAIN _inodes_mapping
    /\ Len(reply.result.value) < reply.take
    /\ \E child \in DirectChildren(_inodes_mapping[reply.inode]) :
          /\ child \in DOMAIN _pathes_mapping
          /\ _pathes_mapping[child] < reply.from_inode
          /\ StrLess(_inodes_mapping[reply.from_inode], child)
          /\ child \notin EntryPaths(_inodes_mapping[reply.inode],
                                     reply.result.value)

\* among the paths in children, those that have an identifier are the first
\* ones in lexicographic order and their identifiers increase in that order
IdsFollow(children) ==
    \A x \in children :
       x \in DOMAIN _pathes_mapping =>
          \A y \in children :
             StrLess(y, x) => /\ y \in DOMAIN _pathes_mapping
                              /\ _pathes_mapping[y] < _pathes_mapping[x]

IdsFollowNames(dir) == IdsFollow(DirectChildren(dir))

\* C17: as long as no lookup gives an identifier to a child of a directory,
\* the identifiers of its children increase in lexicographic order, and a
\* page of its listing holds the children that follow the cursor entry, in
\* order, without a gap, up to the number pulled; so paging with the
\* identifier of the last entry received returns every child exactly once.
C17_PaginationComplete ==
    [][/\ _pathes_mapping' # _pathes_mapping =>
             \A inode \in DOMAIN _inodes_mapping :
                LET children == DirectChildren(_inodes_mapping[inode])
                IN  (/\ IdsFollow(children)
                     /\ \/ reply'.op # "lookup"
                        \/ \A c \in children :
                              c \in DOMAIN _pathes_mapping'
                                 => c \in DOMAIN _pathes_mapping)
                       => IdsFollow(children)'
       /\ (/\ reply'.op = "readdir"
           /\ reply'.inode \in DOMAIN _inodes_mapping) =>
             LET dir      == _inodes_mapping[reply'.inode]
                 children == DirectChildren(dir)
                 cursor   == reply'.from_inode
                 out      == reply'.result.value
                 path(k)  == join(dir, out[k].name)
                 after    == {c \in children :
                                \/ cursor = 0
                                \/ StrLess(_inodes_mapping[cursor], c)}
             IN  (IdsFollow(children) /\ ReaddirStep) =>
                 /\ IsOk(reply'.result)
                 /\ Len(out) <= reply'.take
                 /\ \A k \in DOMAIN out : path(k) \in after
                 /\ \A j, k \in DOMAIN out :
                       j < k => /\ StrLess(path(j), path(k))
                                /\ out[j].inode < out[k].inode
                 /\ \A c \in after :
                       \/ \E k \in DOMAIN out : path(k) = c
                       \/ /\ out # <<>>
                          /\ Len(out) = reply'.take
                          /\ StrLess(path(Len(out)), c)]_vars

\* C17 witness: the second page of a listing of a directory whose children
\* got their identifiers from the listing
C17_Witness ==
    /\ reply.op = "readdir"
    /\ IsOk(reply.result)
    /\ reply.from_inode > 0
    /\ Len(reply.result.value) = 1
    /\ reply.result.value[1].inode > reply.from_inode
    /\ IdsFollowNames(_inodes_mapping[reply.inode])
    /\ StrLess(_inodes_mapping[reply.from_inode],
               _inodes_mapping[reply.result.value[1].inode])

\* C18: an open of an allocated identifier fails with EPERM exactly when an
\* alert is delivered in that call; when no alert is due (first open of the
\* path, or the time since the last alert is not above the threshold) the
\* call records the path as attempted and returns the identifier; a path
\* once attempted stays attempted.
C18_OpenOutcome ==
    [][/\ _tried_open_files \subseteq _tried_open_files'
       /\ (OpenStep /\ reply'.inode \in DOMAIN _inodes_mapping) =>
             LET name    == _inodes_mapping[reply'.inode]
                 due     == /\ name \in _tried_open_files
                            /\ now - _last_notification > _notif_max_wait_sec
                 alerted == Len(notifications') = Len(notifications) + 1
             IN  /\ IsErr(reply'.result, "EPERM") <=> alerted
                 /\ alerted => due
                 /\ ~due => /\ ~alerted
                            /\ _tried_open_files'
                                  = _tried_open_files \cup {name}
                            /\ reply'.result = Ok(reply'.inode)]_vars

\* C18 witness: after an alert, an open inside the threshold returned the
\* identifier
C18_Witness ==
    /\ reply.op = "open"
    /\ IsOk(reply.result)
    /\ notifications # <<>>
    /\ now - _last_notification <= _notif_max_wait_sec
    /\ _inodes_mapping[reply.inode] \in _tried_open_files

\* C19: any two alerts, for whatever paths, are more than the wait
\* threshold apart, and so are the first alert and mount start (clock
\* reading 0).
C19_AlertSpacing ==
    /\ \A i \in DOMAIN notifications :
          notifications[i].at - 0 > _notif_max_wait_sec
    /\ \A i, j \in DOMAIN notifications :
          i < j => notifications[j].at - notifications[i].at
                      > _notif_max_wait_sec

\* C19 witness: two alerts, for two paths
C19_Witness ==
    /\ Len(notifications) = 2
    /\ notifications[1].title # notifications[2].title

\* C20: the identifiers allocated are exactly ROOT_INODE .. _last_inode,
\* _last_inode is the largest of them, and every path with an identifier is
\* the root path or a key of the catalog.
C20_AllocationShape ==
    /\ DOMAIN _inodes_mapping = ROOT_INODE .. _last_inode
    /\ _last_inode = Highest(DOMAIN _inodes_mapping)
    /\ \A path \in DOMAIN _pathes_mapping :
          path = <<>> \/ path \in DOMAIN _pfiles
    /\ \A inode \in DOMAIN _inodes_mapping :
          _inodes_mapping[inode] = <<>>
             \/ _inodes_mapping[inode] \in DOMAIN _pfiles

\* C20 witness: every path of the three-level manifest has an identifier
C20_Witness ==
    /\ _last_inode = 4
    /\ <<"a", "/", "b", "/", "a">> \in DOMAIN _pathes_mapping

\* a line with three fields whose third is a non-negative integer
WellFormed(line) ==
    LET fields == split(strip(line), ":")
    IN  /\ Len(fields) = 3
        /\ int(fields[3]).status = "ok"
        /\ int(fields[3]).value >= 0

\* C13: the start fails, with no catalog built and the main loop not
\* entered, when some line of the .ls file has not three fields or has a
\* size that is not a non-negative integer (such as -5); it succeeds only
\* when every line is well formed.
C13_LoadRejects ==
    reply.op = "main" =>
       /\ running <=> \A i \in DOMAIN reply.lsfile :
                         WellFormed(reply.lsfile[i])
       /\ ~running => _pfiles = EmptyDict /\ ~IsOk(reply.result)

\* C15: with several workers, no path is ever given two identifiers, and
\* whenever no handler is running the two maps are mutually inverse.
C15_NoDoubleAllocation ==
    /\ \A i, j \in DOMAIN _inodes_mapping :
          _inodes_mapping[i] = _inodes_mapping[j] => i = j
    /\ (\A w \in Workers : workers[w].pc \in {"idle", "acquire"}) =>
          /\ \A i \in DOMAIN _inodes_mapping :
                /\ _inodes_mapping[i] \in DOMAIN _pathes_mapping
                /\ _pathes_mapping[_inodes_mapping[i]] = i
          /\ \A path \in DOMAIN _pathes_mapping :
                /\ _pathes_mapping[path] \in DOMAIN _inodes_mapping
                /\ _inodes_mapping[_pathes_mapping[path]] = path

\* C15 witness: a worker is allocating an identifier for a path while
\* another worker has a request that resolves the same path
C15_Witness ==
    \E w1, w2 \in Workers :
       /\ w1 # w2
       /\ workers[w1].pc = "line96"
       /\ workers[w2].pc = "acquire"
       /\ workers[w2].req.op = "lookup"
       /\ workers[w2].req.parent_inode \in DOMAIN _inodes_mapping
       /\ workers[w1].path = join(_inodes_mapping[workers[w2].req.parent_inode],
                                  workers[w2].req.name)

====
